---- MODULE Spec2Model ----
(***************************************************************************)
(* Filter-to-query compiler and paginated executor of the Texas Treasury   *)
(* query dashboard (src/query_utils.py) together with the Run Query        *)
(* handler of the UI (src/app.py).                                         *)
(*                                                                         *)
(* Query text is a sequence of text fragments, bound parameters are a      *)
(* function from parameter names to values, the relational store is a      *)
(* fixed set of rows per table behind a schema that may have drifted.      *)
(* A SELECT without ORDER BY returns its rows in an order the store        *)
(* chooses at every execution.                                             *)
(***************************************************************************)
EXTENDS Integers, Sequences, FiniteSets, TLC

(***************************************************************************)
(* Bounds of the model.                                                    *)
(***************************************************************************)
MaxPage == 3
MaxPageSize == 2
MaxCompiles == 3

(***************************************************************************)
(* State.                                                                  *)
(***************************************************************************)
\*   store     the engine's database: schema variant and table accessibility
\*   req       the arguments of the last call
\*   plan      the query text and parameters compiled for it
\*   sent      the data query handed to connection.execute, if any
\*   exec      what the store did with it: the row order it chose, or a failure
\*   ret       the value the call returned and the warnings it logged
\*   prevRet   the value the same call returned the time before
\*   conn      the engine.connect() attempts of the last call and their fate
\*   compiled  the compilations made so far: how many, and the first of them
\*   paging    a caller that pages through one query: the fetches it made
\*             and the pages it received
\*   introspections  per table, the information_schema.columns queries the
\*             process has issued so far
\*   calls     the get_filtered_data calls that run concurrently, each with
\*             its own arguments and local variables
\*   session   st.session_state of one browser session, and what the last
\*             run of main rendered
VARIABLES store, req, plan, sent, exec, ret, prevRet, conn, compiled, paging,
          introspections, calls, session

(***************************************************************************)
(* Python values that occur as filter values and bound parameters.         *)
(***************************************************************************)
None == [t |-> "none", n |-> 0, s |-> "", l |-> <<>>]
IntV(i) == [t |-> "int", n |-> i, s |-> "", l |-> <<>>]
StrV(x) == [t |-> "str", n |-> 0, s |-> x, l |-> <<>>]
ListV(q) == [t |-> "list", n |-> 0, s |-> "", l |-> q]

\* A presence test that takes every value but None for a filter.
IsNotNone(v) == v.t # "none"

\* Python truth value of a filter value, as tested by `if filters.get(k)`.
Truthy(v) ==
  CASE v.t = "none" -> FALSE
    [] v.t = "int" -> v.n # 0
    [] v.t = "str" -> v.s # ""
    [] v.t = "list" -> v.l # <<>>

Digit == [d \in 0..9 |-> CASE d = 0 -> "0" [] d = 1 -> "1" [] d = 2 -> "2"
                           [] d = 3 -> "3" [] d = 4 -> "4" [] d = 5 -> "5"
                           [] d = 6 -> "6" [] d = 7 -> "7" [] d = 8 -> "8"
                           [] d = 9 -> "9"]

\* str(year)[-2:] for a non-negative integer year.
Last2Digits(y) ==
  IF y < 10 THEN Digit[y] ELSE Digit[(y \div 10) % 10] \o Digit[y % 10]

\* A year bound as supplied.
FourDigitYear(v) == v

TwoDigitYear(v) == StrV(Last2Digits(v.n))

(***************************************************************************)
(* Filter maps.  A key that is absent reads as None (dict.get).            *)
(***************************************************************************)
RangeFields == {"fiscal_year_start", "fiscal_year_end",
                "fiscal_month_start", "fiscal_month_end"}
PaymentOnlyFields == {"appropriation_object"}
ContractOnlyFields == {"category", "procurement_method", "status", "subject"}
UiOnlyFields == {"appropriation_title", "payment_source"}
ScalarFields == {"agency", "vendor"} \cup PaymentOnlyFields
                  \cup ContractOnlyFields \cup UiOnlyFields
Fields == RangeFields \cup ScalarFields

NoFilters == [f \in Fields |-> None]

TableChoices == {"Payment Information", "Contract Information", "Other"}
Tables == {"paymentinformation", "contractinfo"}

PaymentBase == "SELECT p.* FROM paymentinformation p"
ContractBase == "SELECT c.* FROM contractinfo c"

NoParams == [k \in {} |-> None]

\* A base query whose parameter map is one module-level dict shared by all
\* compilations instead of a fresh one.
build_base_query_shared(table_choice) ==
  IF table_choice = "Payment Information"
    THEN [text |-> <<PaymentBase>>, params |-> plan.params]
    ELSE [text |-> <<ContractBase>>, params |-> plan.params]

build_base_query(table_choice) ==
  IF table_choice = "Payment Information"
    THEN [text |-> <<PaymentBase>>, params |-> NoParams]
    ELSE [text |-> <<ContractBase>>, params |-> NoParams]

\* One `if filters.get(...)` block: the condition it appends and what it binds.
Clause(on, cond, binds) ==
  IF on THEN [conds |-> <<cond>>, binds |-> binds]
        ELSE [conds |-> <<>>, binds |-> NoParams]

\* A year range that binds its start only.
FiscalYearClauseStartOnly(filters, cond) ==
  Clause(Truthy(filters["fiscal_year_start"]) /\ Truthy(filters["fiscal_year_end"]),
         cond,
         ("fiscal_year_start" :> TwoDigitYear(filters["fiscal_year_start"])))

FiscalYearClause(filters, cond) ==
  Clause(Truthy(filters["fiscal_year_start"]) /\ Truthy(filters["fiscal_year_end"]),
         cond,
         ("fiscal_year_start" :> TwoDigitYear(filters["fiscal_year_start"]))
           @@ ("fiscal_year_end" :> TwoDigitYear(filters["fiscal_year_end"])))

\* A month range that is emitted when either end is present.
FiscalMonthClauseEitherEnd(filters, cond) ==
  Clause(Truthy(filters["fiscal_month_start"]) \/ Truthy(filters["fiscal_month_end"]),
         cond,
         ("fiscal_month_start" :> filters["fiscal_month_start"])
           @@ ("fiscal_month_end" :> filters["fiscal_month_end"]))

FiscalMonthClause(filters, cond) ==
  Clause(Truthy(filters["fiscal_month_start"]) /\ Truthy(filters["fiscal_month_end"]),
         cond,
         ("fiscal_month_start" :> filters["fiscal_month_start"])
           @@ ("fiscal_month_end" :> filters["fiscal_month_end"]))

\* A scalar filter whose value is written into the condition text.
ScalarClauseInline(filters, field, cond) ==
  Clause(Truthy(filters[field]), cond \o " -- " \o filters[field].s, NoParams)

\* int(v) succeeds: v is an integer or the decimal text of one.
IntCoercible(v) ==
  \/ v.t = "int"
  \/ v.t = "str" /\ \E k \in 0..99 : v.s = Last2Digits(k)

IntOf(v) ==
  IF v.t = "int" THEN v ELSE IntV(CHOOSE k \in 0..99 : v.s = Last2Digits(k))

\* A scalar filter that binds the integer when its value reads as one.
ScalarClauseCoerced(filters, field, cond) ==
  Clause(Truthy(filters[field]), cond,
         (field :> IF IntCoercible(filters[field]) THEN IntOf(filters[field])
                   ELSE filters[field]))

ScalarClause(filters, field, cond) ==
  Clause(Truthy(filters[field]), cond, (field :> filters[field]))

PaymentClauses(filters) ==
  << FiscalYearClause(filters,
       "p.fiscal_year BETWEEN :fiscal_year_start AND :fiscal_year_end"),
     FiscalMonthClause(filters,
       "p.fiscal_month BETWEEN :fiscal_month_start AND :fiscal_month_end"),
     ScalarClause(filters, "agency", "LOWER(p.agency_title) = LOWER(:agency)"),
     ScalarClause(filters, "vendor", "LOWER(p.vendor_name) = LOWER(:vendor)"),
     ScalarClause(filters, "appropriation_object",
       "p.object_title = :appropriation_object") >>

ContractClauses(filters) ==
  << FiscalYearClause(filters,
       "c.fiscal_year BETWEEN :fiscal_year_start AND :fiscal_year_end"),
     FiscalMonthClause(filters,
       "c.fm BETWEEN :fiscal_month_start AND :fiscal_month_end"),
     ScalarClause(filters, "agency", "LOWER(c.agency) = LOWER(:agency)"),
     ScalarClause(filters, "vendor", "LOWER(c.vendor) = LOWER(:vendor)"),
     ScalarClause(filters, "category", "c.category = :category"),
     ScalarClause(filters, "procurement_method",
       "c.procurement_method = :procurement_method"),
     ScalarClause(filters, "status", "c.status = :status"),
     ScalarClause(filters, "subject", "c.subject = :subject") >>

RECURSIVE WhereConditions(_)
WhereConditions(clauses) ==
  IF clauses = <<>> THEN <<>>
  ELSE Head(clauses).conds \o WhereConditions(Tail(clauses))

RECURSIVE BoundParams(_, _)
BoundParams(clauses, params) ==
  IF clauses = <<>> THEN params
  ELSE BoundParams(Tail(clauses), Head(clauses).binds @@ params)

\* " AND ".join(where_conditions)
RECURSIVE JoinAnd(_)
JoinAnd(conds) ==
  IF Len(conds) <= 1 THEN conds
  ELSE <<Head(conds), "AND">> \o JoinAnd(Tail(conds))

\* A compiler that treats every table choice but payments as contracts.
add_filters_to_query_else_contracts(query, filters, params, table_choice) ==
  LET clauses == IF table_choice = "Payment Information" THEN PaymentClauses(filters)
                 ELSE ContractClauses(filters)
      where_conditions == WhereConditions(clauses)
  IN [text |-> IF where_conditions # <<>>
                 THEN query \o <<"WHERE">> \o JoinAnd(where_conditions)
                 ELSE query,
      params |-> BoundParams(clauses, params)]

\* A compiler that reads the filter map from where the latest caller left it
\* instead of from its own argument.
add_filters_to_query_from_req(query, filters, params, table_choice) ==
  LET clauses == IF table_choice = "Payment Information" THEN PaymentClauses(req.filters)
                 ELSE IF table_choice = "Contract Information"
                   THEN ContractClauses(req.filters)
                 ELSE <<>>
      where_conditions == WhereConditions(clauses)
  IN [text |-> IF where_conditions # <<>>
                 THEN query \o <<"WHERE">> \o JoinAnd(where_conditions)
                 ELSE query,
      params |-> BoundParams(clauses, params)]

add_filters_to_query(query, filters, params, table_choice) ==
  LET clauses == IF table_choice = "Payment Information" THEN PaymentClauses(filters)
                 ELSE IF table_choice = "Contract Information" THEN ContractClauses(filters)
                 ELSE <<>>
      where_conditions == WhereConditions(clauses)
  IN [text |-> IF where_conditions # <<>>
                 THEN query \o <<"WHERE">> \o JoinAnd(where_conditions)
                 ELSE query,
      params |-> BoundParams(clauses, params)]

\* build_base_query followed by add_filters_to_query, as both callers do.
Compile(filters, table_choice) ==
  LET base == build_base_query(table_choice)
  IN add_filters_to_query(base.text, filters, base.params, table_choice)

(***************************************************************************)
(* The relational store: schema, rows, and the meaning of the SQL the      *)
(* compiler emits.                                                         *)
(***************************************************************************)
SchemaVariants == {"std", "drift"}

\* Physical columns per table; in the drifted deployment the payments table
\* names its agency column agency_name instead of agency_title.  The amount
\* column is stored under a quoted name with capitals and a space.
Columns(table, schema) ==
  IF table = "paymentinformation"
    THEN {"fiscal_year", "fiscal_month", "vendor_name", "object_title",
          "Dollar Value"}
           \cup (IF schema = "std" THEN {"agency_title"} ELSE {"agency_name"})
    ELSE {"fiscal_year", "fm", "agency", "vendor", "category",
          "procurement_method", "status", "subject", "Dollar Value"}

RowIds == {1, 2, 3}

\* The content of a stored row under a physical column.
Cell(id, col) ==
  CASE col = "fiscal_year" -> IntV(CASE id = 1 -> 22 [] id = 2 -> 23 [] OTHER -> 21)
    [] col \in {"fiscal_month", "fm"} ->
         IntV(CASE id = 1 -> 6 [] id = 2 -> 7 [] OTHER -> 1)
    [] col \in {"agency_title", "agency_name", "agency"} ->
         StrV(CASE id = 1 -> "Acme" [] id = 2 -> "ACME" [] OTHER -> "Other")
    [] col \in {"vendor_name", "vendor"} ->
         StrV(CASE id = 1 -> "Dell Inc." [] id = 2 -> "DELL INC." [] OTHER -> "IBM")
    [] OTHER -> StrV(CASE id = 1 -> "X" [] id = 2 -> "X" [] OTHER -> "Y")

\* SQL LOWER().
Lower(x) ==
  CASE x \in {"ACME", "Acme", "acme"} -> "acme"
    [] x \in {"Dell Inc.", "DELL INC.", "dell inc."} -> "dell inc."
    [] x = "All" -> "all"
    [] x = "Other" -> "other"
    [] x = "IBM" -> "ibm"
    [] x = "X" -> "x"
    [] x = "Y" -> "y"
    [] OTHER -> x

\* The predicate a WHERE condition of the compiler denotes.
PredicateOf(cond) ==
  CASE cond \in {"p.fiscal_year BETWEEN :fiscal_year_start AND :fiscal_year_end",
                 "c.fiscal_year BETWEEN :fiscal_year_start AND :fiscal_year_end"} ->
         [op |-> "BETWEEN", col |-> "fiscal_year",
          ps |-> <<"fiscal_year_start", "fiscal_year_end">>]
    [] cond = "p.fiscal_month BETWEEN :fiscal_month_start AND :fiscal_month_end" ->
         [op |-> "BETWEEN", col |-> "fiscal_month",
          ps |-> <<"fiscal_month_start", "fiscal_month_end">>]
    [] cond = "c.fm BETWEEN :fiscal_month_start AND :fiscal_month_end" ->
         [op |-> "BETWEEN", col |-> "fm",
          ps |-> <<"fiscal_month_start", "fiscal_month_end">>]
    [] cond = "LOWER(p.agency_title) = LOWER(:agency)" ->
         [op |-> "LOWER=", col |-> "agency_title", ps |-> <<"agency">>]
    [] cond = "LOWER(c.agency) = LOWER(:agency)" ->
         [op |-> "LOWER=", col |-> "agency", ps |-> <<"agency">>]
    [] cond = "LOWER(p.vendor_name) = LOWER(:vendor)" ->
         [op |-> "LOWER=", col |-> "vendor_name", ps |-> <<"vendor">>]
    [] cond = "LOWER(c.vendor) = LOWER(:vendor)" ->
         [op |-> "LOWER=", col |-> "vendor", ps |-> <<"vendor">>]
    [] cond = "p.object_title = :appropriation_object" ->
         [op |-> "=", col |-> "object_title", ps |-> <<"appropriation_object">>]
    [] cond = "c.category = :category" ->
         [op |-> "=", col |-> "category", ps |-> <<"category">>]
    [] cond = "c.procurement_method = :procurement_method" ->
         [op |-> "=", col |-> "procurement_method", ps |-> <<"procurement_method">>]
    [] cond = "c.status = :status" ->
         [op |-> "=", col |-> "status", ps |-> <<"status">>]
    [] cond = "c.subject = :subject" ->
         [op |-> "=", col |-> "subject", ps |-> <<"subject">>]
    [] OTHER -> [op |-> "invalid", col |-> "", ps |-> <<>>]

\* The WHERE conditions of a query text, in order.
ConditionsOf(text) ==
  [i \in 1..((Len(text) - 1) \div 2) |-> text[2 * i + 1]]

PredicatesOf(text) ==
  [i \in 1..((Len(text) - 1) \div 2) |-> PredicateOf(text[2 * i + 1])]

\* The table a query text reads.
FromTable(text) ==
  IF text[1] = PaymentBase THEN "paymentinformation" ELSE "contractinfo"

\* The decimal strings the store reads as the number k, 0 <= k <= 99.
Denotes(x, k) == x = Last2Digits(k) \/ (k < 10 /\ x = "0" \o Digit[k])

IsNumeric(v) ==
  \/ v.t = "int"
  \/ v.t = "str" /\ \E k \in 0..99 : Denotes(v.s, k)

\* The number a bound value denotes where the store compares numbers.
NumOf(v) ==
  IF v.t = "int" THEN v.n
  ELSE CHOOSE k \in 0..99 : Denotes(v.s, k)

\* Whether the store can evaluate a predicate at all: the column exists,
\* every placeholder is bound, and the operand types fit the operator.
WellTyped(pred, schema, table, params) ==
  /\ pred.op # "invalid"
  /\ pred.col \in Columns(table, schema)
  /\ \A i \in 1..Len(pred.ps) : pred.ps[i] \in DOMAIN params
  /\ \A i \in 1..Len(pred.ps) :
       IF pred.op = "BETWEEN" THEN IsNumeric(params[pred.ps[i]])
       ELSE params[pred.ps[i]].t = "str"

Holds(id, pred, params) ==
  LET cell == Cell(id, pred.col)
  IN CASE pred.op = "BETWEEN" ->
            /\ NumOf(params[pred.ps[1]]) <= cell.n
            /\ cell.n <= NumOf(params[pred.ps[2]])
       [] pred.op = "LOWER=" -> Lower(cell.s) = Lower(params[pred.ps[1]].s)
       [] pred.op = "=" -> cell.s = params[pred.ps[1]].s
       [] OTHER -> FALSE

\* The store raises on a query it cannot evaluate.
CanExecute(st, text, params) ==
  /\ st.access[FromTable(text)]
  /\ \A i \in 1..Len(PredicatesOf(text)) :
       WellTyped(PredicatesOf(text)[i], st.schema, FromTable(text), params)

MatchingRows(st, text, params) ==
  {id \in RowIds : \A i \in 1..Len(PredicatesOf(text)) :
                     Holds(id, PredicatesOf(text)[i], params)}

\* The orders in which the store may return a set of rows.
Orders(S) ==
  {o \in [1..Cardinality(S) -> S] : \A i, j \in 1..Cardinality(S) : o[i] = o[j] => i = j}

ResultOrders(st, text, params) ==
  IF CanExecute(st, text, params) THEN Orders(MatchingRows(st, text, params))
  ELSE {<<>>}

(***************************************************************************)
(* Execution.                                                              *)
(***************************************************************************)
PAGE_SIZE == 150

Empty == <<>>

\* A connection that is acquired and never given back.
ConnectNoRelease(connected) ==
  IF connected THEN <<"acquire">> ELSE <<"refused">>

\* with engine.connect() as connection: what happens to the pool.  The block
\* gives the connection back however it is left; a refused acquisition
\* raises before the block is entered.
WithConnect(connected) ==
  IF connected THEN <<"acquire", "release">> ELSE <<"refused">>

\* The information_schema.columns queries of check_table_accessibility: one
\* per table once the connection is there (both tables exist in the store).
SchemaReads(connected) == [t \in Tables |-> IF connected THEN 1 ELSE 0]

\* check_table_accessibility: every table reads inaccessible when the
\* connection cannot be acquired (the except branch returns the initial map).
check_table_accessibility(st, connected) ==
  [t \in Tables |-> connected /\ st.access[t]]

\* A target table that is taken to be contractinfo whatever the query reads.
TableNameAlwaysContracts(query) == "contractinfo"

\* "paymentinformation" if "paymentinformation" in str(query).lower()
TableNameIn(query) ==
  IF \E i \in 1..Len(query) : query[i] = PaymentBase
    THEN "paymentinformation" ELSE "contractinfo"

\* base_query.split("LIMIT")[0] when the text has a LIMIT clause.
StripLimit(query) ==
  IF \E i \in 1..Len(query) : query[i] = "LIMIT"
    THEN SubSeq(query, 1, (CHOOSE i \in 1..Len(query) :
                             /\ query[i] = "LIMIT"
                             /\ \A j \in 1..(i - 1) : query[j] # "LIMIT") - 1)
    ELSE query

\* The rows a LIMIT/OFFSET window selects from the rows in result order.
Window(order, offset, limit) ==
  SubSeq(order, offset + 1, IF offset + limit < Len(order) THEN offset + limit
                            ELSE Len(order))

\* A probe that reports more rows as soon as the page is full.
HasMoreWhenFull(results, page_size) == Len(results) >= page_size

\* A probe that reports exhaustion only for fewer rows than a page.
HasMoreUnlessShort(results, page_size) == ~(Len(results) < page_size)

\* has_more = len(results) > page_size
HasMore(results, page_size) == Len(results) > page_size

\* A page that keeps the probe row.
StripProbeKeep(results, has_more) == results

\* results[:-1] when the probe row came back.
StripProbe(results, has_more) ==
  IF has_more THEN SubSeq(results, 1, Len(results) - 1) ELSE results

NotSent == [issued |-> FALSE, text |-> Empty, paged |-> FALSE, limit |-> 0,
            offset |-> 0, params |-> NoParams]
NotRun == [failed |-> FALSE, order |-> Empty]
\* What a call hands back: the rows, the keys of the records, has_more, and
\* the messages it logged at warning level.  No call of the module raises.
Result(data, has_more) ==
  [data |-> data, has_more |-> has_more, raised |-> FALSE, keys |-> {},
   warnings |-> {}]

\* row._mapping.keys() of the rows of SELECT t.*: the physical column names.
RowKeys(st, table, data) ==
  IF data = Empty THEN {} ELSE Columns(table, st.schema)

\* str.lower() on a column name.
ColLower(col) ==
  CASE col = "Dollar Value" -> "dollar value"
    [] col = "Dollar_Value" -> "dollar_value"
    [] OTHER -> col

\* str.replace(' ', '_') on a column name.
ColReplaceSpaces(col) ==
  CASE col = "Dollar Value" -> "Dollar_Value"
    [] col = "dollar value" -> "dollar_value"
    [] OTHER -> col

\* A column key that is lower-cased only.
SanitizeLowerOnly(col) == ColLower(col)

\* col.lower().replace(' ', '_')
SanitizeColumn(col) == ColReplaceSpaces(ColLower(col))

\* pd.DataFrame(data) with sanitised column names, or the empty frame and
\* the warning "No data returned from query".
Frame(r) ==
  IF r.ret.data # Empty
    THEN [r EXCEPT !.ret.keys = {SanitizeColumn(col) : col \in r.ret.keys}]
  ELSE [r EXCEPT !.ret = [Result(Empty, FALSE) EXCEPT
                            !.warnings = {"No data returned from query"}]]

\* execute_query: order is the order in which the store returns the matching
\* rows at this execution, fail a store-side failure of the data query,
\* connects[i] whether the i-th engine.connect() of the call succeeds.
execute_query(st, query, params, page_size, page, order, fail, connects) ==
  LET table_access == check_table_accessibility(st, connects[1])
      checked == WithConnect(connects[1])
      structure == SchemaReads(connects[1])
      columns == [t \in Tables |-> structure[t] + IF t = TableNameIn(query) THEN 1 ELSE 0]
      table_name == TableNameIn(query)
      base_query == StripLimit(query)
      offset == (page - 1) * page_size
      paginated == [issued |-> TRUE, text |-> base_query, paged |-> TRUE,
                    limit |-> page_size + 1, offset |-> offset, params |-> params]
      raised == fail \/ offset < 0 \/ ~CanExecute(st, base_query, params)
      results == Window(order, offset, page_size + 1)
      has_more == HasMore(results, page_size)
      data == StripProbe(results, has_more)
  IN IF ~\E t \in Tables : table_access[t]
       THEN [sent |-> NotSent, exec |-> NotRun, ret |-> Result(Empty, FALSE),
             conn |-> checked,
             reads |-> structure]
     ELSE IF ~connects[2]
       THEN [sent |-> NotSent, exec |-> NotRun, ret |-> Result(Empty, FALSE),
             conn |-> checked \o WithConnect(FALSE),
             reads |-> structure]
     ELSE IF ~table_access[table_name]
       THEN [sent |-> NotSent, exec |-> NotRun, ret |-> Result(Empty, FALSE),
             conn |-> checked \o WithConnect(TRUE),
             reads |-> structure]
     ELSE IF raised
       THEN [sent |-> paginated, exec |-> [failed |-> TRUE, order |-> Empty],
             ret |-> Result(Empty, FALSE), conn |-> checked \o WithConnect(TRUE),
             reads |-> columns]
     ELSE [sent |-> paginated, exec |-> [failed |-> FALSE, order |-> order],
           ret |-> [Result(data, has_more) EXCEPT
                      !.keys = RowKeys(st, table_name, data)],
           conn |-> checked \o WithConnect(TRUE),
             reads |-> columns]

\* get_filtered_data: compile, fetch one page of PAGE_SIZE, wrap in a frame.
get_filtered_data(st, filters, table_choice, page, order, fail, connects) ==
  LET q == Compile(filters, table_choice)
  IN Frame(execute_query(st, q.text, q.params, PAGE_SIZE, page, order, fail,
                         connects))

\* A complete fetch that drops the last row as the paged fetch drops its probe.
get_complete_data_less_one(st, query, params, order, fail, connected) ==
  LET base_query == StripLimit(query)
      complete == [issued |-> TRUE, text |-> base_query, paged |-> FALSE,
                   limit |-> 0, offset |-> 0, params |-> params]
      raised == fail \/ ~CanExecute(st, base_query, params)
  IN IF ~connected
       THEN [sent |-> NotSent, exec |-> NotRun, ret |-> Result(Empty, FALSE),
             conn |-> WithConnect(FALSE),
             reads |-> SchemaReads(FALSE)]
     ELSE IF raised
       THEN [sent |-> complete, exec |-> [failed |-> TRUE, order |-> Empty],
             ret |-> Result(Empty, FALSE), conn |-> WithConnect(TRUE),
             reads |-> SchemaReads(FALSE)]
     ELSE [sent |-> complete, exec |-> [failed |-> FALSE, order |-> order],
           ret |-> [Result(StripProbe(order, order # Empty), FALSE) EXCEPT
                      !.keys = RowKeys(st, TableNameIn(query),
                                       StripProbe(order, order # Empty))],
           conn |-> WithConnect(TRUE),
             reads |-> SchemaReads(FALSE)]

\* get_complete_data: one data query without LIMIT/OFFSET.
get_complete_data(st, query, params, order, fail, connected) ==
  LET base_query == StripLimit(query)
      complete == [issued |-> TRUE, text |-> base_query, paged |-> FALSE,
                   limit |-> 0, offset |-> 0, params |-> params]
      raised == fail \/ ~CanExecute(st, base_query, params)
  IN IF ~connected
       THEN [sent |-> NotSent, exec |-> NotRun, ret |-> Result(Empty, FALSE),
             conn |-> WithConnect(FALSE),
             reads |-> SchemaReads(FALSE)]
     ELSE IF raised
       THEN [sent |-> complete, exec |-> [failed |-> TRUE, order |-> Empty],
             ret |-> Result(Empty, FALSE), conn |-> WithConnect(TRUE),
             reads |-> SchemaReads(FALSE)]
     ELSE [sent |-> complete, exec |-> [failed |-> FALSE, order |-> order],
           ret |-> [Result(order, FALSE) EXCEPT
                      !.keys = RowKeys(st, TableNameIn(query), order)],
           conn |-> WithConnect(TRUE),
             reads |-> SchemaReads(FALSE)]

get_complete_filtered_data(st, filters, table_choice, order, fail, connected) ==
  LET q == Compile(filters, table_choice)
  IN Frame(get_complete_data(st, q.text, q.params, order, fail, connected))

(***************************************************************************)
(* The Run Query handler of the UI builds the filter map from the          *)
(* dropdown selections, the range sliders and the selected vendor.         *)
(***************************************************************************)
Selected(v) == Truthy(v) /\ v # StrV("All")

NewFilters(table_choice, sel) ==
  LET dropdowns == IF table_choice = "Payment Information"
                     THEN {"agency", "appropriation_title", "payment_source",
                           "appropriation_object"}
                     ELSE {"agency", "category", "procurement_method", "status",
                           "subject"}
      years == sel["fiscal_year_start"] # None /\ sel["fiscal_year_end"] # None
      months == sel["fiscal_month_start"] # None /\ sel["fiscal_month_end"] # None
  IN [f \in Fields |->
        CASE f \in dropdowns -> IF Selected(sel[f]) THEN sel[f] ELSE None
          [] f \in {"fiscal_year_start", "fiscal_year_end"} ->
               IF years THEN sel[f] ELSE None
          [] f \in {"fiscal_month_start", "fiscal_month_end"} ->
               IF months THEN sel[f] ELSE None
          [] f = "vendor" -> IF Truthy(sel[f]) THEN ListV(<<sel[f].s>>) ELSE ListV(<<>>)
          [] OTHER -> None]

(***************************************************************************)
(* Inputs.                                                                 *)
(***************************************************************************)
YearPairs == {<<None, None>>, <<IntV(2022), None>>, <<None, IntV(2023)>>,
              <<IntV(2022), IntV(2023)>>, <<IntV(2023), IntV(2022)>>}
MonthPairs == {<<None, None>>, <<IntV(6), None>>, <<None, IntV(6)>>,
               <<IntV(6), IntV(6)>>}
AgencyValues == {None, StrV("All"), StrV("ACME")}
VendorValues == {None, ListV(<<>>), ListV(<<"Dell Inc.">>)}
ExtraFields == {"none", "appropriation_object", "category", "payment_source"}

MkFilters(yp, mp, ag, ve, ex) ==
  [f \in Fields |->
     CASE f = "fiscal_year_start" -> yp[1]
       [] f = "fiscal_year_end" -> yp[2]
       [] f = "fiscal_month_start" -> mp[1]
       [] f = "fiscal_month_end" -> mp[2]
       [] f = "agency" -> ag
       [] f = "vendor" -> ve
       [] f = ex -> StrV("X")
       [] OTHER -> None]

FilterMaps ==
  {MkFilters(yp, mp, ag, ve, ex) :
     yp \in YearPairs, mp \in MonthPairs, ag \in AgencyValues,
     ve \in VendorValues, ex \in ExtraFields}

\* Filter maps that select 0, 1, 2 and 3 of the stored rows, and the filter
\* maps of one field with a value of each kind.
PagingFilters ==
  {NoFilters,
   MkFilters(<<IntV(2022), IntV(2023)>>, <<None, None>>, None, None, "none"),
   MkFilters(<<IntV(2023), IntV(2022)>>, <<None, None>>, None, None, "none"),
   MkFilters(<<None, None>>, <<IntV(6), IntV(6)>>, None, None, "none"),
   MkFilters(<<None, None>>, <<None, None>>, StrV("ACME"), None, "none"),
   MkFilters(<<None, None>>, <<None, None>>, StrV("All"), None, "none"),
   MkFilters(<<None, None>>, <<None, None>>, StrV("7"), None, "none"),
   MkFilters(<<None, None>>, <<None, None>>, None, ListV(<<"Dell Inc.">>), "none"),
   MkFilters(<<IntV(2022), IntV(2023)>>, <<None, None>>, StrV("ACME"), None, "none")}

\* What the user can have selected in the UI.
Selections ==
  {MkFilters(yp, mp, ag, ve, ex) :
     yp \in {<<None, None>>, <<IntV(2022), IntV(2023)>>},
     mp \in {<<None, None>>, <<IntV(6), IntV(6)>>},
     ag \in {StrV("All"), StrV("ACME")},
     ve \in {None, StrV("Dell Inc.")},
     ex \in ExtraFields}

Stores ==
  {[schema |-> "std", access |-> [t \in Tables |-> TRUE]],
   [schema |-> "drift", access |-> [t \in Tables |-> TRUE]],
   [schema |-> "std", access |-> [t \in Tables |-> t = "contractinfo"]],
   [schema |-> "std", access |-> [t \in Tables |-> FALSE]]}

(***************************************************************************)
(* State.  query_utils keeps no state between calls, so every request      *)
(* starts from the state after construction; a behaviour is one request    *)
(* against a store, followed by a repetition of that request.              *)
(***************************************************************************)
vars == <<store, req, plan, sent, exec, ret, prevRet, conn, compiled, paging,
          introspections, calls, session>>

NoReq == [op |-> "none", via |-> "none", filters |-> NoFilters,
          table_choice |-> "none", page_size |-> 0, page |-> 0]
NoRet == [data |-> Empty, has_more |-> FALSE, raised |-> FALSE, none |-> TRUE,
          ran |-> FALSE]

NoneCompiled == [n |-> 0, filters |-> NoFilters, table_choice |-> "none",
                 plan |-> [text |-> Empty, params |-> NoParams],
                 first_keys |-> <<>>, keys |-> <<>>, other |-> FALSE]

\* st.session_state before the first run of main: no key is set.
NewSession ==
  [privacy_accepted |-> "absent", queried_data |-> Empty, has_data |-> FALSE,
   last_query_time |-> FALSE, view |-> "none", clicked |-> FALSE,
   cleared |-> FALSE, ever_cleared |-> FALSE]

\* initialize_session_state: privacy_accepted = False unless the key is there.
initialize_session_state(s) ==
  IF s.privacy_accepted = "absent" THEN [s EXCEPT !.privacy_accepted = "false"]
  ELSE s

\* A clear that leaves the privacy flag in place.
ClearKeepsPrivacy(s) ==
  [s EXCEPT !.queried_data = Empty, !.has_data = FALSE, !.last_query_time = FALSE]

\* st.session_state.clear(): every key is removed.
ClearSession(s) ==
  [s EXCEPT !.privacy_accepted = "absent", !.queried_data = Empty,
            !.has_data = FALSE, !.last_query_time = FALSE]

\* One run of main.  expired: 24 hours have passed since session_start;
\* early: the run returns before the gate (health or status endpoint, or an
\* error while loading); click: the accept button was pressed (a clear
\* drops the widget state, so the button then reads False); caught: the
\* script-control exception of st.rerun() is caught by the except block
\* around the gate instead of restarting the script.
RECURSIVE RunOfMain(_, _, _, _, _)
RunOfMain(s, expired, early, click, caught) ==
  LET s1 == initialize_session_state(s)
      s2 == IF expired THEN ClearSession(s1) ELSE s1
      s3 == [s2 EXCEPT !.cleared = expired, !.ever_cleared = @ \/ expired,
                       !.clicked = click /\ ~expired]
      s4 == IF s3.privacy_accepted = "absent"
              THEN [s3 EXCEPT !.privacy_accepted = "false"] ELSE s3
  IN IF early THEN [s3 EXCEPT !.view = "other"]
     ELSE IF s4.privacy_accepted # "true"
       THEN IF s4.clicked
              THEN IF caught
                     THEN [s4 EXCEPT !.privacy_accepted = "true", !.view = "error"]
                   ELSE RunOfMain([s4 EXCEPT !.privacy_accepted = "true"],
                                  FALSE, FALSE, FALSE, FALSE)
            ELSE [s4 EXCEPT !.view = "gate"]
     ELSE [s4 EXCEPT !.view = "main"]

\* A session in which the privacy statement was accepted and the main
\* content is displayed.
AcceptedSession == RunOfMain(RunOfMain(NewSession, FALSE, FALSE, FALSE, FALSE),
                             FALSE, FALSE, TRUE, FALSE)

\* The value get_filtered_data hands to the Run Query handler: the tuple
\* (frame, has_more).
ReturnValue(r) == [kind |-> "tuple", rows |-> r.data, has_more |-> r.has_more]

\* The Run Query handler after the call: df.empty exists on a frame only;
\* on any other value the attribute access raises, the except block reports
\* the error and the session keeps what it had.
RunQueryHandler(s, df) ==
  IF df.kind # "frame" THEN s
  ELSE IF df.rows # Empty
    THEN [s EXCEPT !.queried_data = df.rows, !.has_data = TRUE,
                   !.last_query_time = TRUE]
  ELSE s

Callers == {1, 2}

\* A call that has not been made.
NoCall == [pc |-> "idle", filters |-> NoFilters, table_choice |-> "none",
           page |-> 0, query |-> Empty, params |-> NoParams, sent |-> NotSent,
           ret |-> Result(Empty, FALSE), overlapped |-> FALSE]

NotPaging == [fetches |-> 0, rows |-> Empty, done |-> FALSE, clean |-> TRUE]

\* The state of the module and the store before any call.
InitCalls ==
  /\ store \in Stores
  /\ req = NoReq
  /\ plan = [text |-> Empty, params |-> NoParams]
  /\ sent = NotSent
  /\ exec = NotRun
  /\ ret = Result(Empty, FALSE)
  /\ prevRet = NoRet
  /\ conn = <<>>
  /\ compiled = NoneCompiled
  /\ paging = NotPaging
  /\ introspections = [t \in Tables |-> 0]
  /\ calls = [c \in Callers |-> NoCall]

\* Calls are made from a session that shows the main content.
Init == InitCalls /\ session = AcceptedSession

\* What a request does against the store.
Outcome(r, order, fail, connects) ==
  CASE r.op = "execute_query" ->
         LET q == Compile(r.filters, r.table_choice)
         IN execute_query(store, q.text, q.params, r.page_size, r.page, order, fail,
                          connects)
    [] r.op = "get_filtered_data" ->
         get_filtered_data(store, r.filters, r.table_choice, r.page, order, fail,
                           connects)
    [] r.op = "get_complete_filtered_data" ->
         get_complete_filtered_data(store, r.filters, r.table_choice, order, fail,
                                    connects[1])

\* Which engine.connect() of a call is refused, if any.  A paged fetch
\* connects twice (accessibility check, data query), a complete fetch once.
AllConnect == <<TRUE, TRUE>>
Refusals(r) ==
  IF r.op = "get_complete_filtered_data" THEN {<<FALSE, TRUE>>}
  ELSE {<<FALSE, TRUE>>, <<TRUE, FALSE>>}

Returns(r, o) ==
  /\ req' = r
  /\ plan' = Compile(r.filters, r.table_choice)
  /\ sent' = o.sent
  /\ exec' = o.exec
  /\ ret' = o.ret
  /\ conn' = o.conn
  /\ introspections' = [t \in Tables |-> introspections[t] + o.reads[t]]
  /\ UNCHANGED <<store, compiled, calls>>

\* One call: the store picks the row order and may fail the data query, or
\* the pool refuses a connection before any data query is sent.
Serve(r) ==
  LET q == Compile(r.filters, r.table_choice)
  IN \/ \E fail \in BOOLEAN : \E order \in ResultOrders(store, q.text, q.params) :
          Returns(r, Outcome(r, order, fail, AllConnect))
     \/ \E connects \in Refusals(r) : Returns(r, Outcome(r, Empty, FALSE, connects))

Idle == req.op = "none"

\* A caller compiles a query and fetches one page of it with execute_query.
ExecuteQueryCall ==
  /\ Idle
  /\ \E filters \in PagingFilters, table_choice \in TableChoices,
        page_size \in 1..MaxPageSize, page \in 0..MaxPage :
       Serve([op |-> "execute_query", via |-> "api", filters |-> filters,
              table_choice |-> table_choice, page_size |-> page_size, page |-> page])
  /\ UNCHANGED <<prevRet, paging, session>>

GetFilteredData ==
  /\ Idle
  /\ \E filters \in PagingFilters, table_choice \in TableChoices, page \in 0..MaxPage :
       Serve([op |-> "get_filtered_data", via |-> "api", filters |-> filters,
              table_choice |-> table_choice, page_size |-> PAGE_SIZE, page |-> page])
  /\ UNCHANGED <<prevRet, paging, session>>

GetCompleteFilteredData ==
  /\ Idle
  /\ \E filters \in FilterMaps, table_choice \in TableChoices :
       Serve([op |-> "get_complete_filtered_data", via |-> "api", filters |-> filters,
              table_choice |-> table_choice, page_size |-> 0, page |-> 0])
  /\ UNCHANGED <<prevRet, paging, session>>

\* The Run Query button, which the main content renders: build the filter
\* map, fetch the first page, keep the data in the session.
RunQuery ==
  /\ Idle
  /\ session.view = "main" /\ session.privacy_accepted = "true"
  /\ \E sel \in Selections,
        table_choice \in {"Payment Information", "Contract Information"} :
       Serve([op |-> "get_filtered_data", via |-> "ui",
              filters |-> NewFilters(table_choice, sel),
              table_choice |-> table_choice, page_size |-> PAGE_SIZE, page |-> 1])
  /\ session' = RunQueryHandler(session, ReturnValue(ret'))
  /\ UNCHANGED <<prevRet, paging>>

\* The caller issues the same request again; the store has not changed.
RepeatCall ==
  /\ ~Idle
  /\ prevRet.none
  /\ prevRet' = [data |-> ret.data, has_more |-> ret.has_more,
                 raised |-> ret.raised, none |-> FALSE,
                 ran |-> sent.issued /\ ~exec.failed]
  /\ Serve(req)
  /\ UNCHANGED <<paging, session>>

Next ==
  \/ ExecuteQueryCall
  \/ GetFilteredData
  \/ GetCompleteFilteredData
  \/ RunQuery
  \/ RepeatCall

Spec == Init /\ [][Next]_vars

(***************************************************************************)
(* Compilations in sequence.  A caller passes the filter map as a dict,    *)
(* whose keys have an insertion order; the compiler reads it with          *)
(* filters.get(key).  compiled remembers the first compilation.            *)
(***************************************************************************)
\* The items of the dicts that are compiled, as sets of (key, value) pairs.
ItemSets ==
  {{},
   {<<"agency", StrV("ACME")>>, <<"fiscal_year_start", IntV(2022)>>,
    <<"fiscal_year_end", IntV(2023)>>},
   {<<"vendor", StrV("Dell Inc.")>>, <<"category", StrV("X")>>},
   {<<"appropriation_object", StrV("X")>>, <<"agency", StrV("ACME")>>},
   {<<"fiscal_year_start", IntV(1999)>>, <<"fiscal_year_end", IntV(2000)>>}}

\* The same dicts with their keys inserted in every order.
ItemLists == UNION {Orders(S) : S \in ItemSets}

\* filters.get(key)
DictGet(items, key) ==
  IF \E i \in 1..Len(items) : items[i][1] = key
    THEN items[CHOOSE i \in 1..Len(items) : items[i][1] = key][2]
    ELSE None

KeysOf(items) == [i \in 1..Len(items) |-> items[i][1]]

InitCompile == Init /\ store.schema = "std" /\ \A t \in Tables : store.access[t]

\* build_base_query then add_filters_to_query on a dict and a table choice.
CompileCall ==
  /\ compiled.n < MaxCompiles
  /\ \E items \in ItemLists, table_choice \in TableChoices :
       LET filters == [f \in Fields |-> DictGet(items, f)]
           q == Compile(filters, table_choice)
       IN /\ req' = [op |-> "compile", via |-> "api", filters |-> filters,
                     table_choice |-> table_choice, page_size |-> 0, page |-> 0]
          /\ plan' = q
          /\ compiled' =
               IF compiled.n = 0
                 THEN [n |-> 1, filters |-> filters, table_choice |-> table_choice,
                       plan |-> q, first_keys |-> KeysOf(items),
                       keys |-> KeysOf(items), other |-> FALSE]
               ELSE [compiled EXCEPT
                       !.n = @ + 1,
                       !.keys = KeysOf(items),
                       !.other = @ \/ filters # compiled.filters
                                   \/ table_choice # compiled.table_choice]
  /\ UNCHANGED <<store, sent, exec, ret, prevRet, conn, paging, introspections,
                 calls, session>>

NextCompile == CompileCall

SpecCompile == InitCompile /\ [][NextCompile]_vars

(***************************************************************************)
(* A caller that pages through one query with execute_query: it starts at  *)
(* page 1 and asks for the next page only after has_more came back true.   *)
(* The position is the caller's; the store is the same at every fetch and  *)
(* picks the row order of every execution anew.                            *)
(***************************************************************************)
\* What the caller holds after a fetch returned.
Received(p) ==
  [fetches |-> p.fetches + 1,
   rows |-> p.rows \o ret'.data,
   done |-> ~ret'.has_more,
   clean |-> p.clean /\ sent'.issued /\ ~exec'.failed]

FirstPage ==
  /\ Idle
  /\ \E filters \in PagingFilters,
        table_choice \in {"Payment Information", "Contract Information"},
        page_size \in 1..MaxPageSize :
       Serve([op |-> "execute_query", via |-> "api", filters |-> filters,
              table_choice |-> table_choice, page_size |-> page_size, page |-> 1])
  /\ paging' = Received(paging)
  /\ UNCHANGED <<prevRet, session>>

NextPage ==
  /\ ~Idle
  /\ ~paging.done
  /\ req.page < MaxPage
  /\ Serve([req EXCEPT !.page = @ + 1])
  /\ paging' = Received(paging)
  /\ UNCHANGED <<prevRet, session>>

NextPaging == FirstPage \/ NextPage

SpecPaging == Init /\ [][NextPaging]_vars

(***************************************************************************)
(* Concurrent get_filtered_data calls (one per request thread).  Each call *)
(* runs its statements in order on its own locals; statements of different *)
(* calls interleave.  req is the argument list of the call entered last,   *)
(* plan the query compiled last.                                           *)
(***************************************************************************)
ConcurrentFilters ==
  {MkFilters(<<IntV(2022), IntV(2023)>>, <<None, None>>, None, None, "none"),
   MkFilters(<<None, None>>, <<None, None>>, StrV("ACME"), None, "none"),
   MkFilters(<<None, None>>, <<IntV(6), IntV(6)>>, None, None, "category")}

InitConcurrent == Init /\ store.schema = "std" /\ \A t \in Tables : store.access[t]

Unobserved == <<store, sent, exec, ret, prevRet, conn, compiled, paging,
                introspections, session>>

\* get_filtered_data(filters, table_choice, engine, page) is entered.
Enter(c) ==
  /\ calls[c].pc = "idle"
  /\ \E filters \in ConcurrentFilters,
        table_choice \in {"Payment Information", "Contract Information"},
        page \in 1..MaxPage :
       /\ calls' = [d \in Callers |->
                      IF d = c
                        THEN [NoCall EXCEPT
                                !.pc = "entered", !.filters = filters,
                                !.table_choice = table_choice, !.page = page,
                                !.overlapped = \E e \in Callers :
                                   calls[e].pc \in {"entered", "based", "compiled"}]
                      ELSE [calls[d] EXCEPT
                              !.overlapped = @ \/ calls[d].pc \in
                                                    {"entered", "based", "compiled"}]]
       /\ req' = [op |-> "get_filtered_data", via |-> "api", filters |-> filters,
                  table_choice |-> table_choice, page_size |-> PAGE_SIZE,
                  page |-> page]
  /\ UNCHANGED <<plan, Unobserved>>

\* query, params = build_base_query(table_choice)
BuildBase(c) ==
  /\ calls[c].pc = "entered"
  /\ LET base == build_base_query(calls[c].table_choice)
     IN calls' = [calls EXCEPT ![c].pc = "based", ![c].query = base.text,
                               ![c].params = base.params]
  /\ UNCHANGED <<req, plan, Unobserved>>

\* query, params = add_filters_to_query(query, filters, params, table_choice)
AddFilters(c) ==
  /\ calls[c].pc = "based"
  /\ LET q == add_filters_to_query(calls[c].query, calls[c].filters, calls[c].params,
                                   calls[c].table_choice)
     IN /\ calls' = [calls EXCEPT ![c].pc = "compiled", ![c].query = q.text,
                                  ![c].params = q.params]
        /\ plan' = q
  /\ UNCHANGED <<req, Unobserved>>

\* data, has_more = execute_query(query, params, engine, 150, page), then
\* the frame is built and returned.
ExecuteAndReturn(c) ==
  /\ calls[c].pc = "compiled"
  /\ \E fail \in BOOLEAN, connects \in {AllConnect, <<FALSE, TRUE>>, <<TRUE, FALSE>>} :
       \E order \in ResultOrders(store, calls[c].query, calls[c].params) :
         LET o == Frame(execute_query(store, calls[c].query, calls[c].params,
                                      PAGE_SIZE, calls[c].page, order, fail, connects))
         IN calls' = [calls EXCEPT ![c].pc = "done", ![c].sent = o.sent,
                                   ![c].ret = o.ret]
  /\ UNCHANGED <<req, plan, Unobserved>>

EnterCall == \E c \in Callers : Enter(c)
BuildBaseStep == \E c \in Callers : BuildBase(c)
AddFiltersStep == \E c \in Callers : AddFilters(c)
ExecuteStep == \E c \in Callers : ExecuteAndReturn(c)

NextConcurrent == EnterCall \/ BuildBaseStep \/ AddFiltersStep \/ ExecuteStep

SpecConcurrent == InitConcurrent /\ [][NextConcurrent]_vars

(***************************************************************************)
(* The runs of main in one browser session.  Every interaction reruns the  *)
(* script from the top: session initialisation, session expiry, the        *)
(* privacy gate, then the main content with its Run Query button.          *)
(***************************************************************************)
InitMain == InitCalls /\ session = NewSession

Backend == <<store, req, plan, sent, exec, ret, prevRet, conn, compiled, paging,
             introspections, calls>>

\* The script runs without the accept button being pressed.
RunMain ==
  /\ \E expired \in BOOLEAN, early \in BOOLEAN :
       session' = RunOfMain(session, expired, early, FALSE, FALSE)
  /\ UNCHANGED Backend

\* The user presses "I Accept the Privacy Statement", which the gate renders.
ClickAccept ==
  /\ session.view = "gate"
  /\ \E expired \in BOOLEAN, early \in BOOLEAN, caught \in BOOLEAN :
       session' = RunOfMain(session, expired, early, TRUE, caught)
  /\ UNCHANGED Backend

NextMain == RunMain \/ ClickAccept \/ RunQuery

SpecMain == InitMain /\ [][NextMain]_vars

(***************************************************************************)
(* Properties.                                                             *)
(***************************************************************************)
ValidChoice == req.table_choice \in {"Payment Information", "Contract Information"}

\* The data query of the last call was sent and the store answered it.
Answered == sent.issued /\ ~exec.failed

\* T: the rows of the store that match the compiled query.
Matching == MatchingRows(store, plan.text, plan.params)
T == Cardinality(Matching)

PlanPredicates == PredicatesOf(plan.text)

\* The conditions of the compiled query that use the placeholder :name.
ConditionsOn(name) ==
  {i \in 1..Len(PlanPredicates) :
     \E j \in 1..Len(PlanPredicates[i].ps) : PlanPredicates[i].ps[j] = name}

NoPredicateFor(f) == ConditionsOn(f) = {} /\ f \notin DOMAIN plan.params

Min(a, b) == IF a < b THEN a ELSE b
Max(a, b) == IF a > b THEN a ELSE b

\* C1: a page fetched by execute_query from an accessible table holds the
\* rows at positions [(n-1)P, nP) of the result, clipped at T, and has_more
\* is T > nP.
C1_PageWindow ==
  (req.op = "execute_query" /\ Answered) =>
    LET n == req.page
        P == req.page_size
        k == Max(0, Min(P, T - (n - 1) * P))
    IN /\ Len(exec.order) = T
       /\ ret.data = [i \in 1..k |-> exec.order[(n - 1) * P + i]]
       /\ ret.has_more = (T > n * P)

C1_Witness ==
  /\ req.op = "execute_query" /\ Answered
  /\ req.page = 2 /\ req.page_size = 1 /\ T = 3
  /\ ret.has_more /\ Len(ret.data) = 1

RangeOf(data) == {data[i] : i \in 1..Len(data)}
NoDuplicates(data) == \A i, j \in 1..Len(data) : data[i] = data[j] => i = j
ExactlyMatching(data) ==
  Len(data) = T /\ RangeOf(data) = Matching /\ NoDuplicates(data)

Sentinel(v) == v = None \/ v = ListV(<<>>) \/ v = StrV("All")

\* C3 as stated: a field whose value is None, an empty list or "All" has no
\* predicate and no bound parameter in the compiled query.
C3_Original ==
  \A f \in Fields : Sentinel(req.filters[f]) => NoPredicateFor(f)

\* C3 amended: a field whose value is None or an empty list has no predicate
\* and no bound parameter; "All" is left out of the filter map by the Run
\* Query handler, and add_filters_to_query compiles it like any other value.
C3_SentinelDrop ==
  /\ \A f \in Fields :
       req.filters[f] \in {None, ListV(<<>>)} => NoPredicateFor(f)
  /\ req.via = "ui" => \A f \in Fields : req.filters[f] # StrV("All")
  /\ (ValidChoice /\ req.filters["agency"] = StrV("All")) =>
       /\ ConditionsOn("agency") # {}
       /\ plan.params["agency"] = StrV("All")

C3_Witness ==
  /\ req.via = "ui"
  /\ req.filters["agency"] = None /\ req.filters["vendor"] = ListV(<<>>)
  /\ Len(plan.text) > 1

\* The column a range field pair is compiled on.
RangeColumn(table_choice, start) ==
  IF start = "fiscal_year_start" THEN "fiscal_year"
  ELSE IF table_choice = "Payment Information" THEN "fiscal_month" ELSE "fm"

RangeEnd(start) ==
  IF start = "fiscal_year_start" THEN "fiscal_year_end" ELSE "fiscal_month_end"

BetweenOn(col) ==
  {i \in 1..Len(PlanPredicates) :
     PlanPredicates[i].op = "BETWEEN" /\ PlanPredicates[i].col = col}

SameFieldsOtherValues(filters) ==
  [f \in Fields |-> IF Truthy(filters[f]) THEN IntV(7) ELSE None]

\* The texts a filter value consists of.
TextsOf(v) ==
  CASE v.t = "str" -> {v.s}
    [] v.t = "list" -> {v.l[i] : i \in 1..Len(v.l)}
    [] v.t = "int" -> {Last2Digits(v.n)}
    [] OTHER -> {}

\* C5: the query text sent to the store depends on which fields are applied,
\* never on their values: it is the text compiled for any other filter map
\* with the same applied fields, no fragment of it is a filter value, LIMIT
\* and OFFSET come from the page alone, and every value of a compiled
\* predicate is a bound parameter.
C5_ValuesOnlyBound ==
  sent.issued =>
    /\ sent.text = Compile(SameFieldsOtherValues(req.filters), req.table_choice).text
    /\ \A i \in 1..Len(sent.text) : \A f \in Fields :
         sent.text[i] \notin TextsOf(req.filters[f])
    /\ sent.paged => /\ sent.limit = req.page_size + 1
                     /\ sent.offset = (req.page - 1) * req.page_size
    /\ \A f \in Fields :
         ConditionsOn(f) # {} =>
           /\ f \in DOMAIN sent.params
           /\ f \notin {"fiscal_year_start", "fiscal_year_end"} =>
                sent.params[f] = req.filters[f]

C5_Witness ==
  /\ sent.issued /\ sent.paged
  /\ req.filters["agency"] = StrV("All")
  /\ ConditionsOn("agency") # {}
  /\ sent.text = Compile([req.filters EXCEPT !["agency"] = StrV("ACME")],
                         req.table_choice).text

\* C6 as stated: a fetch whose data query fails at the store surfaces an
\* error to its caller.
C6_FailureSurfaced ==
  (req.op \in {"execute_query", "get_filtered_data"} /\ sent.issued /\ exec.failed)
    => ret.raised

\* C7 as stated: a fetch repeated with the same query, parameters and page
\* against the unchanged store returns the same records and the same has_more.
C7_FetchIdempotent ==
  (/\ req.op \in {"execute_query", "get_filtered_data"}
   /\ ~prevRet.none /\ prevRet.ran /\ Answered)
    => (prevRet.data = ret.data /\ prevRet.has_more = ret.has_more)

\* C8 as stated: the agency filter is compiled on the agency column that
\* exists in the live schema of the payments table (agency_name when the
\* schema lacks agency_title), and the filter applies.
C8_ColumnFallback ==
  (/\ req.table_choice = "Payment Information"
   /\ req.filters["agency"].t = "str" /\ Truthy(req.filters["agency"])
   /\ sent.issued)
    => /\ ConditionsOn("agency") # {}
       /\ \A i \in ConditionsOn("agency") :
            PlanPredicates[i].col \in Columns("paymentinformation", store.schema)

\* C9 as stated: a non-empty list-valued vendor filter compiles to an IN
\* predicate on the vendor column with one bound parameter per element; an
\* empty list compiles to no predicate.
C9_ListCompilesToIn ==
  ValidChoice =>
    LET v == req.filters["vendor"]
        vendor_col == IF req.table_choice = "Payment Information"
                        THEN "vendor_name" ELSE "vendor"
    IN /\ (v.t = "list" /\ v.l # <<>>) =>
            \E i \in 1..Len(PlanPredicates) :
              /\ PlanPredicates[i].op = "IN"
              /\ PlanPredicates[i].col = vendor_col
              /\ Len(PlanPredicates[i].ps) = Len(v.l)
              /\ \A j \in 1..Len(v.l) :
                   plan.params[PlanPredicates[i].ps[j]] = StrV(v.l[j])
       /\ v = ListV(<<>>) => NoPredicateFor("vendor")

Example1 ==
  MkFilters(<<IntV(2022), IntV(2023)>>, <<None, None>>, StrV("ACME"), None, "none")

IsExample1 == req.filters = Example1 /\ req.table_choice = "Payment Information"

TwoPredicatesOfExample1 ==
  /\ Len(PlanPredicates) = 2
  /\ \E i, j \in 1..2 :
       /\ PlanPredicates[i] = [op |-> "LOWER=", col |-> "agency_title",
                               ps |-> <<"agency">>]
       /\ PlanPredicates[j] = [op |-> "BETWEEN", col |-> "fiscal_year",
                               ps |-> <<"fiscal_year_start", "fiscal_year_end">>]
  /\ DOMAIN plan.params = {"agency", "fiscal_year_start", "fiscal_year_end"}
  /\ plan.params["agency"] = StrV("ACME")

YearRangeApplied ==
  /\ ValidChoice
  /\ req.filters["fiscal_year_start"] # None
  /\ req.filters["fiscal_year_end"] # None

\* C10 as stated: Example 1 compiles to the two predicates, and a fiscal-year
\* range binds the supplied start and end years.
C10_Original ==
  /\ IsExample1 =>
       /\ TwoPredicatesOfExample1
       /\ plan.params["fiscal_year_start"] = IntV(2022)
       /\ plan.params["fiscal_year_end"] = IntV(2023)
  /\ YearRangeApplied =>
       /\ plan.params["fiscal_year_start"] = req.filters["fiscal_year_start"]
       /\ plan.params["fiscal_year_end"] = req.filters["fiscal_year_end"]

\* The text of the last two decimal digits of a four-digit year.
YearTail(y) ==
  CASE y = 2022 -> "22"
    [] y = 2023 -> "23"

\* C10 amended: Example 1 compiles to the two predicates, and a fiscal-year
\* range binds the last two digits of the supplied years, as text ('22' and
\* '23' in the example).
C10_TwoDigitYears ==
  /\ IsExample1 =>
       /\ TwoPredicatesOfExample1
       /\ plan.params["fiscal_year_start"] = StrV("22")
       /\ plan.params["fiscal_year_end"] = StrV("23")
  /\ YearRangeApplied =>
       /\ plan.params["fiscal_year_start"]
            = StrV(YearTail(req.filters["fiscal_year_start"].n))
       /\ plan.params["fiscal_year_end"]
            = StrV(YearTail(req.filters["fiscal_year_end"].n))

C10_Witness ==
  /\ IsExample1
  /\ Len(PlanPredicates) = 2
  /\ sent.issued

(***************************************************************************)
(* Connections.                                                            *)
(***************************************************************************)
\* An engine.connect() of the last call was refused.
Refused == \E i \in 1..Len(conn) : conn[i] = "refused"

\* The connections the last call still holds after its first i pool events.
RECURSIVE Held(_)
Held(i) ==
  IF i = 0 THEN 0
  ELSE Held(i - 1) + (CASE conn[i] = "acquire" -> 1
                        [] conn[i] = "release" -> -1
                        [] OTHER -> 0)

\* C11: when acquiring a connection fails during a fetch or a complete
\* fetch, the failure is propagated to the caller (the call does not return
\* a normal result), and no further acquisition is attempted in that call.
C11_AcquisitionErrorPropagated ==
  Refused => /\ ret.raised
             /\ conn[Len(conn)] = "refused"

\* C12: every connection acquired inside a fetch or a complete fetch is
\* released before the call returns, on every exit path (normal return,
\* early return for an inaccessible table, store error): between calls no
\* connection is held, and a call never holds more than one at a time.
C12_ConnectionsReleased ==
  /\ Held(Len(conn)) = 0
  /\ \A i \in 1..Len(conn) : Held(i) \in {0, 1}

\* A fetch that acquired its data connection and left by the early return
\* for an inaccessible table.
C12_Witness ==
  /\ req.op = "execute_query"
  /\ conn = <<"acquire", "release", "acquire", "release">>
  /\ ~sent.issued
  /\ ~store.access[TableNameIn(plan.text)]

(***************************************************************************)
(* Failures of the complete fetch.                                         *)
(***************************************************************************)
\* What the complete fetch returns when its query completed and matched no
\* row: the empty frame, with the warning that no data was returned.
CompleteAndEmpty ==
  [Result(Empty, FALSE) EXCEPT !.warnings = {"No data returned from query"}]

\* C13: when the store fails during a complete fetch, what was assembled is
\* discarded or returned clearly marked as partial: the call never returns
\* a value the caller can take for the complete result set when the query
\* did not complete.
C13_FailureNotTakenForComplete ==
  (req.op = "get_complete_filtered_data" /\ exec.failed) => ret # CompleteAndEmpty

(***************************************************************************)
(* Filters the schema or the table has no column for.                      *)
(***************************************************************************)
\* The fields whose filter the last call reported as ignored.
IgnoredReported(f) == \E w \in ret.warnings : w = "ignored filter: " \o f

\* The fields of the request that carry a filter value.
Supplied == {f \in ScalarFields : Truthy(req.filters[f])}

\* The predicates the compiler emits for a filter on field f alone.
PredicatesFor(f) ==
  PredicatesOf(Compile([NoFilters EXCEPT ![f] = StrV("X")], req.table_choice).text)

\* Field f is compiled onto a column the live table does not have.
ColumnMissing(f) ==
  \E i \in 1..Len(PredicatesFor(f)) :
    PredicatesFor(f)[i].col \notin Columns(FromTable(plan.text), store.schema)

\* C14: a filter whose field has no physical column in the live schema is
\* dropped from the predicate list and reported as an ignored-filter
\* warning; the query still executes with the remaining filters, and no
\* predicate on a column the table does not have is ever sent to the store.
C14_NoPredicateOnMissingColumn ==
  /\ sent.issued =>
       \A i \in 1..Len(PredicatesOf(sent.text)) :
         PredicatesOf(sent.text)[i].col \in Columns(FromTable(sent.text), store.schema)
  /\ \A f \in Supplied :
       (~Idle /\ ColumnMissing(f) /\ conn[Len(conn)] = "release"
          /\ store.access[FromTable(plan.text)])
         => NoPredicateFor(f) /\ IgnoredReported(f) /\ sent.issued

\* The table of the request has no predicate for field f.
UndefinedForTable(f) == PredicatesFor(f) = <<>>

\* C15: a filter on a field that is not defined for the active table
\* (appropriation_title, payment_source or category on Payments,
\* appropriation_object on Contracts) is never compiled into a predicate or
\* a bound parameter, and its being dropped is reported to the caller as a
\* warning.
C15_UndefinedFieldDroppedWithWarning ==
  \A f \in Supplied :
    (~Idle /\ ValidChoice /\ UndefinedForTable(f))
      => NoPredicateFor(f) /\ IgnoredReported(f)

(***************************************************************************)
(* Scalar equality filters.                                                *)
(***************************************************************************)
\* The scalar fields of the request that are compiled for its table.
CompiledScalars ==
  {f \in Supplied : ~Idle /\ ValidChoice /\ ~UndefinedForTable(f)}

\* The one predicate of the compiled query on field f.
PredicateOn(f) == PlanPredicates[CHOOSE i \in ConditionsOn(f) : TRUE]

\* C16 as stated: every scalar equality filter binds the integer when its
\* value coerces to one, and only otherwise falls back to the
\* case-insensitive comparison LOWER(col) = LOWER(:val).
C16_Original ==
  \A f \in CompiledScalars :
    /\ ConditionsOn(f) # {}
    /\ f \in DOMAIN plan.params
    /\ IF IntCoercible(req.filters[f])
         THEN plan.params[f] = IntOf(req.filters[f]) /\ PredicateOn(f).op = "="
         ELSE plan.params[f] = req.filters[f] /\ PredicateOn(f).op = "LOWER="

\* C16: no integer coercion is attempted.  Every scalar equality filter binds
\* the supplied value unchanged; agency and vendor compile to the
\* case-insensitive comparison LOWER(col) = LOWER(:val), every other scalar
\* field to the exact comparison col = :val.
C16_ScalarBoundAsGiven ==
  \A f \in CompiledScalars :
    /\ Cardinality(ConditionsOn(f)) = 1
    /\ f \in DOMAIN plan.params
    /\ plan.params[f] = req.filters[f]
    /\ PredicateOn(f).op = IF f \in {"agency", "vendor"} THEN "LOWER=" ELSE "="

\* An agency filter whose value reads as an integer was compiled.
C16_Witness ==
  /\ "agency" \in CompiledScalars
  /\ IntCoercible(req.filters["agency"])
  /\ plan.params["agency"] = StrV("7")

(***************************************************************************)
(* Determinism of compilation.                                             *)
(***************************************************************************)
\* The last compilation had the filter map and table choice of the first.
SameAsFirst ==
  /\ compiled.n >= 1
  /\ req.filters = compiled.filters
  /\ req.table_choice = compiled.table_choice

PagedSent == sent.issued /\ sent.paged

\* C18: in every fetch the offset sent to the store is a non-negative
\* multiple of the page size, for every page number the caller can pass.
C18_OffsetNonNegativeMultiple ==
  PagedSent => /\ sent.offset >= 0
               /\ sent.offset % req.page_size = 0

(***************************************************************************)
(* The frame get_filtered_data returns.                                    *)
(***************************************************************************)
\* The rows the paged data query selected, in the order the store gave them,
\* without the probe row.
FetchedRows == Window(exec.order, sent.offset, req.page_size)

\* get_filtered_data returned a frame that has rows.
FrameReturned == req.op = "get_filtered_data" /\ Answered /\ FetchedRows # Empty

\* C19: get_filtered_data returns one record per row the fetch returned,
\* count and order preserved, and every record key is the column name in
\* lower case with spaces replaced by underscores.
C19_FrameKeepsRowsAndSanitisesKeys ==
  FrameReturned =>
    /\ ret.data = FetchedRows
    /\ Cardinality(ret.keys) = Cardinality(Columns(FromTable(sent.text), store.schema))
    /\ \A col \in Columns(FromTable(sent.text), store.schema) :
         IF col = "Dollar Value" THEN "dollar_value" \in ret.keys /\ col \notin ret.keys
         ELSE col \in ret.keys
    /\ ret.keys \cap {"Dollar Value", "dollar value", "Dollar_Value"} = {}

\* A frame of all three rows whose amount column was renamed.
C19_Witness ==
  /\ FrameReturned
  /\ Len(ret.data) = Cardinality(RowIds)
  /\ "dollar_value" \in ret.keys

\* What the store returned for the paged data query, probe row included.
ProbeRows == Window(exec.order, sent.offset, sent.limit)

\* C20: each fetch issues its data query with LIMIT page size + 1 and
\* OFFSET (page - 1) * page size, returns at most page-size rows, never
\* returns the extra probe row, and sets has_more exactly when the store
\* returned more than page-size rows for that probe.
C20_ProbeRow ==
  /\ PagedSent => /\ sent.limit = req.page_size + 1
                  /\ sent.offset = (req.page - 1) * req.page_size
  /\ (PagedSent /\ Answered) =>
       /\ Len(ret.data) <= req.page_size
       /\ ret.has_more = (Len(ProbeRows) > req.page_size)
       /\ Len(ProbeRows) > req.page_size =>
            ProbeRows[Len(ProbeRows)] \notin RangeOf(ret.data)

\* The store returned a full page and the probe row; the page was returned
\* without it.
C20_Witness ==
  /\ PagedSent /\ Answered
  /\ Len(ProbeRows) = req.page_size + 1
  /\ ret.has_more
  /\ Len(ret.data) = req.page_size
  /\ req.page > 1

(***************************************************************************)
(* Paging through a query.                                                 *)
(***************************************************************************)
\* ceil(a / b) for b > 0.
CeilDiv(a, b) == (a + b - 1) \div b

\* The caller was told there is no more, and no fetch of its session failed.
PagedToEnd == paging.fetches >= 1 /\ paging.done /\ paging.clean

\* C21: a caller that starts at page 1 and moves to page n+1 only after
\* page n returned has_more = true, against an unchanged accessible store
\* with T matching rows, receives has_more = false after exactly
\* max(1, ceil(T / page size)) fetches, and the pages it received cover all
\* T rows.
C21_PagesCoverAllRows ==
  PagedToEnd => /\ paging.fetches = Max(1, CeilDiv(T, req.page_size))
                /\ RangeOf(paging.rows) = Matching

\* A paged fetch whose data query the store answered.
FetchSucceeded == PagedSent /\ Answered

\* C22 as stated: a successful fetch ends exhausted (has_more = false)
\* exactly when the probe returned fewer rows than the page size.
C22_Original ==
  FetchSucceeded => (~ret.has_more <=> Len(ProbeRows) < req.page_size)

\* C22: a successful fetch ends exhausted (has_more = false) exactly when
\* the probe, which asks for page size + 1 rows, returned at most page-size
\* rows; a probe that returns exactly a full page is exhausted too.
C22_ExhaustedIffNoProbeRow ==
  FetchSucceeded => (~ret.has_more <=> Len(ProbeRows) <= req.page_size)

\* The probe returned exactly one full page and the fetch ended exhausted.
C22_Witness ==
  /\ FetchSucceeded
  /\ Len(ProbeRows) = req.page_size
  /\ Len(ret.data) = req.page_size
  /\ ~ret.has_more

(***************************************************************************)
(* Schema introspection.                                                   *)
(***************************************************************************)
\* C23: across any sequence of compile and fetch calls in one process at
\* most one schema introspection query is issued per table; the first
\* resolution introspects and every later call reuses the cached result.
C23_OneIntrospectionPerTable ==
  \A t \in Tables : introspections[t] <= 1

(***************************************************************************)
(* Concurrent calls.                                                       *)
(***************************************************************************)
\* What a call with the arguments of cl can send and return when it runs
\* alone against the store.
Alone(cl) ==
  LET q == Compile(cl.filters, cl.table_choice)
  IN {[sent |-> o.sent, ret |-> o.ret] :
        o \in {get_filtered_data(store, cl.filters, cl.table_choice, cl.page,
                                 order, fail, connects) :
                 order \in ResultOrders(store, q.text, q.params),
                 fail \in BOOLEAN,
                 connects \in {AllConnect, <<FALSE, TRUE>>, <<TRUE, FALSE>>}}}

\* C24: the engine keeps no state between calls.  Under every interleaving
\* of concurrent get_filtered_data calls with different filters, tables and
\* page numbers, each call has the query text, the parameters and a result
\* it would get when run alone; no call sees another call's filters or
\* parameters.
C24_CallsDoNotInterfere ==
  \A c \in Callers :
    /\ calls[c].pc \in {"compiled", "done"} =>
         /\ calls[c].query = Compile(calls[c].filters, calls[c].table_choice).text
         /\ calls[c].params = Compile(calls[c].filters, calls[c].table_choice).params
    /\ calls[c].pc = "done" =>
         [sent |-> calls[c].sent, ret |-> calls[c].ret] \in Alone(calls[c])

\* Two overlapping calls with different filters, tables and pages have both
\* returned, one of them with rows.
C24_Witness ==
  /\ \A c \in Callers : calls[c].pc = "done" /\ calls[c].overlapped
  /\ calls[1].filters # calls[2].filters
  /\ calls[1].table_choice # calls[2].table_choice
  /\ calls[1].page # calls[2].page
  /\ calls[1].ret.data # Empty
  /\ calls[1].params # NoParams /\ calls[2].params # NoParams

(***************************************************************************)
(* Placeholders and parameters.                                            *)
(***************************************************************************)
\* The named placeholders of the WHERE clause of a query text.
Placeholders(text) ==
  UNION {RangeOf(PredicatesOf(text)[i].ps) : i \in 1..Len(PredicatesOf(text))}

HasWhere(text) == \E i \in 1..Len(text) : text[i] = "WHERE"

\* C25: after build_base_query and add_filters_to_query the keys of the
\* parameter map are exactly the named placeholders of the WHERE clause (no
\* placeholder without a value, no value without a placeholder), and there
\* is a WHERE clause exactly when at least one predicate was compiled.
C25_ParamsMatchPlaceholders ==
  ~Idle =>
    /\ DOMAIN plan.params = Placeholders(plan.text)
    /\ \A i \in 1..Len(PlanPredicates) : PlanPredicates[i].op # "invalid"
    /\ HasWhere(plan.text) <=> Len(PlanPredicates) >= 1
    /\ ~HasWhere(plan.text) => Len(plan.text) = 1

\* A year range and an agency were compiled: two predicates, three
\* placeholders.
C25_Witness ==
  /\ HasWhere(plan.text)
  /\ Len(PlanPredicates) = 2
  /\ DOMAIN plan.params = {"fiscal_year_start", "fiscal_year_end", "agency"}

(***************************************************************************)
(* Order of the two-digit years.                                           *)
(***************************************************************************)
\* A fiscal-year range with start <= end was supplied and compiled.
OrderedYearRange ==
  /\ ValidChoice
  /\ Truthy(req.filters["fiscal_year_start"]) /\ Truthy(req.filters["fiscal_year_end"])
  /\ req.filters["fiscal_year_start"].n <= req.filters["fiscal_year_end"].n
  /\ {"fiscal_year_start", "fiscal_year_end"} \subseteq DOMAIN plan.params

\* C26: the two-digit conversion of fiscal years keeps the range order: for
\* every supplied fiscal_year_start <= fiscal_year_end the value bound for
\* :fiscal_year_start is at most the value bound for :fiscal_year_end, so a
\* non-empty supplied range never compiles to an empty BETWEEN range.
C26_YearOrderKept ==
  OrderedYearRange =>
    NumOf(plan.params["fiscal_year_start"]) <= NumOf(plan.params["fiscal_year_end"])

(***************************************************************************)
(* Table choices other than the two tables.                                *)
(***************************************************************************)
\* The last call named neither Payment Information nor Contract Information.
OtherChoice == ~Idle /\ ~ValidChoice

\* C27: for a table choice that is neither "Payment Information" nor
\* "Contract Information", compile produces a query over contractinfo with
\* no WHERE clause and an empty parameter map, whatever the filter map
\* holds: the contracts table is read unfiltered.
C27_OtherChoiceReadsContractsUnfiltered ==
  OtherChoice =>
    /\ plan.text = <<ContractBase>>
    /\ plan.params = NoParams
    /\ sent.issued => sent.text = <<ContractBase>> /\ sent.params = NoParams
    /\ (Answered /\ ~sent.paged) => RangeOf(ret.data) = RowIds

\* A complete fetch for another table choice with an agency and a year range
\* returned every contract row.
C27_Witness ==
  /\ OtherChoice
  /\ Truthy(req.filters["agency"])
  /\ Truthy(req.filters["fiscal_year_start"]) /\ Truthy(req.filters["fiscal_year_end"])
  /\ Answered /\ ~sent.paged
  /\ Len(ret.data) = Cardinality(RowIds)

(***************************************************************************)
(* Accessibility check and data query.                                     *)
(***************************************************************************)
\* The last call was a paged fetch.
IsFetch == req.op \in {"execute_query", "get_filtered_data"}

\* The table the compiled query reads.
TargetTable == FromTable(plan.text)

\* C28: within one execute_query call the accessibility check precedes the
\* data query, and the data query is issued only if the table named in the
\* query was found accessible in that call; if the target table is not
\* accessible the call returns ([], False) without a data query, even when
\* the other table is accessible.
C28_CheckBeforeDataQuery ==
  IsFetch =>
    /\ sent.issued =>
         /\ conn = <<"acquire", "release", "acquire", "release">>
         /\ store.access[TargetTable]
         /\ FromTable(sent.text) = TargetTable
    /\ ~store.access[TargetTable] =>
         ~sent.issued /\ ret.data = Empty /\ ~ret.has_more

\* The payments table is not accessible while contractinfo is: the fetch of
\* payments was checked, sent no data query and returned nothing.
C28_Witness ==
  /\ req.op = "get_filtered_data"
  /\ TargetTable = "paymentinformation"
  /\ ~store.access["paymentinformation"] /\ store.access["contractinfo"]
  /\ Len(conn) = 4
  /\ ~sent.issued
  /\ ret.data = Empty /\ ~ret.has_more

(***************************************************************************)
(* The Run Query handler and the session.                                  *)
(***************************************************************************)
\* Run Query has just completed and its query returned rows.
RunQueryReturnedRows ==
  req.via = "ui" /\ prevRet.none /\ Answered /\ ret.data # Empty

\* C29: after Run Query completes against a store that holds at least one
\* row matching the selected filters, the session's queried_data holds the
\* records get_filtered_data returned and last_query_time is set;
\* queried_data is left unchanged only when the query returns no rows or
\* fails.
C29_RunQueryStoresData ==
  RunQueryReturnedRows =>
    /\ session.has_data
    /\ session.queried_data = ret.data
    /\ session.last_query_time

(***************************************************************************)
(* The privacy gate.                                                       *)
(***************************************************************************)
\* The gate holds in every state: main content only in an accepted session,
\* and a run that cleared the session ends before the main content.
GateHolds ==
  /\ session.view = "main" => session.privacy_accepted = "true"
  /\ session.cleared => (session.privacy_accepted # "true" /\ session.view # "main")

\* A step in which a query is issued.
QueryIssued == Idle /\ ~Idle'

\* A step in which privacy_accepted becomes true.
BecomesAccepted ==
  session.privacy_accepted # "true" /\ session'.privacy_accepted = "true"

\* C30: in every run of main the main content is reached only if
\* privacy_accepted is true; privacy_accepted becomes true only through the
\* accept button; after a session-expiry clear it is false again, so the
\* gate is shown before any further query.
C30_PrivacyGate ==
  /\ []GateHolds
  /\ [][BecomesAccepted => ClickAccept]_vars
  /\ [][QueryIssued => (session.view = "main" /\ session.privacy_accepted = "true")]_vars

\* The main content is shown in a session that had expired and was accepted
\* again, and a query was run from the main content.
C30_Witness ==
  /\ session.view = "main"
  /\ session.ever_cleared
  /\ req.via = "ui"
  /\ ret.data # Empty

====
